---- MODULE Spec2Model ----
(***************************************************************************)
(* Model of the CyberArk custom-provider HTTP adapter (custom-provider/):  *)
(* the routing-header codec, the root request router, the safe and account *)
(* handlers and the post-create GetAccounts polling of AddAccount.         *)
(*                                                                         *)
(* Strings are sequences of symbols.  "/" and "." are the two symbols the  *)
(* code splits on; every other symbol (for instance "subscriptions" or     *)
(* "s1") stands for a run of characters containing neither.                *)
(***************************************************************************)
EXTENDS Integers, Sequences, FiniteSets, TLC

\* ------------------------------------------------------------------ bounds
MaxSlash == 1        \* most leading (and trailing) '/' put around a header
MaxExtra == 1        \* most segments placed after the instance-name segment
MaxWorkers == 2      \* requests in flight at once (one goroutine each)

\* ------------------------------------------------- strings (Go "strings")
Slash == "/"
Dot == "."

RECURSIVE TrimLeft(_, _)
TrimLeft(s, c) ==
    IF s # <<>> /\ Head(s) = c THEN TrimLeft(Tail(s), c) ELSE s

RECURSIVE TrimRight(_, _)
TrimRight(s, c) ==
    IF s # <<>> /\ s[Len(s)] = c THEN TrimRight(SubSeq(s, 1, Len(s) - 1), c) ELSE s

\* strings.Trim(s, cutset) for a one-character cutset
Trim(s, c) == TrimRight(TrimLeft(s, c), c)

\* strings.Split(s, sep) for a one-character sep: Split("", sep) is [""]
RECURSIVE Split(_, _)
Split(s, sep) ==
    IF \A k \in 1..Len(s) : s[k] # sep
    THEN <<s>>
    ELSE LET i == CHOOSE k \in 1..Len(s) :
                      s[k] = sep /\ \A j \in 1..(k - 1) : s[j] # sep
         IN  <<SubSeq(s, 1, i - 1)>> \o Split(SubSeq(s, i + 1, Len(s)), sep)

\* strings.Join(parts, sep) for a one-character sep
RECURSIVE Join(_, _)
Join(parts, sep) ==
    IF parts = <<>> THEN <<>>
    ELSE IF Len(parts) = 1 THEN parts[1]
    ELSE parts[1] \o <<sep>> \o Join(Tail(parts), sep)

RECURSIVE Repeat(_, _)
Repeat(c, n) == IF n = 0 THEN <<>> ELSE <<c>> \o Repeat(c, n - 1)

\* --------------------------------------------- CustomProviderRequestPath
EmptyRequestPath ==
    [Subscriptions |-> <<>>, ResourceGroups |-> <<>>, Providers |-> <<>>,
     ResourceProviders |-> <<>>, ResourceTypeName |-> <<>>,
     ResourceInstanceName |-> <<>>, FullPath |-> <<>>]

\* Segments of the header as the parser sees them.
Segments(h) == Split(Trim(h, Slash), Slash)

\* Mutant: the length test is off by one (8 segments pass it).
ParseOffByOne(h) ==
    IF h = <<>> THEN [outcome |-> "err", req |-> EmptyRequestPath]
    ELSE LET segments == Segments(h) IN
         IF Len(segments) < 8
         THEN [outcome |-> "err", req |-> [EmptyRequestPath EXCEPT !.FullPath = h]]
         ELSE IF Len(segments) < 10
         THEN [outcome |-> "panic", req |-> [EmptyRequestPath EXCEPT !.FullPath = h]]
         ELSE [outcome |-> "ok",
               req |-> [Subscriptions |-> segments[2],
                        ResourceGroups |-> segments[4],
                        Providers |-> segments[6],
                        ResourceProviders |-> segments[8],
                        ResourceTypeName |-> segments[9],
                        ResourceInstanceName |-> segments[10],
                        FullPath |-> h]]

\* Mutant: segments after the instance name are an error.
ParseExactlyTen(h) ==
    IF h = <<>> THEN [outcome |-> "err", req |-> EmptyRequestPath]
    ELSE LET segments == Segments(h) IN
         IF Len(segments) < 9 \/ Len(segments) > 10
         THEN [outcome |-> "err", req |-> [EmptyRequestPath EXCEPT !.FullPath = h]]
         ELSE IF Len(segments) < 10
         THEN [outcome |-> "panic", req |-> [EmptyRequestPath EXCEPT !.FullPath = h]]
         ELSE [outcome |-> "ok",
               req |-> [Subscriptions |-> segments[2],
                        ResourceGroups |-> segments[4],
                        Providers |-> segments[6],
                        ResourceProviders |-> segments[8],
                        ResourceTypeName |-> segments[9],
                        ResourceInstanceName |-> segments[10],
                        FullPath |-> h]]

\* ParseCustomProviderHeaderRequestPath: outcome "ok", "err" (error value
\* returned) or "panic" (segments[9] read from a 9-element slice: Go index
\* out of range).  Go indices 1,3,5,7,8,9 are 2,4,6,8,9,10 here.
ParseCustomProviderHeaderRequestPath(h) ==
    IF h = <<>> THEN [outcome |-> "err", req |-> EmptyRequestPath]
    ELSE LET segments == Segments(h) IN
         IF Len(segments) < 9
         THEN [outcome |-> "err", req |-> [EmptyRequestPath EXCEPT !.FullPath = h]]
         ELSE IF Len(segments) < 10
         THEN [outcome |-> "panic", req |-> [EmptyRequestPath EXCEPT !.FullPath = h]]
         ELSE [outcome |-> "ok",
               req |-> [Subscriptions |-> segments[2],
                        ResourceGroups |-> segments[4],
                        Providers |-> segments[6],
                        ResourceProviders |-> segments[8],
                        ResourceTypeName |-> segments[9],
                        ResourceInstanceName |-> segments[10],
                        FullPath |-> h]]

HasCustomProviderRequestPath(h) == h # <<>>

\* CustomProviderRequestPath.ID
ID(r) ==
    LET id == <<Slash, "subscriptions", Slash>> \o r.Subscriptions
              \o <<Slash, "resourceGroups", Slash>> \o r.ResourceGroups
              \o <<Slash, "providers", Slash>> \o r.Providers
              \o <<Slash, "resourceProviders", Slash>> \o r.ResourceProviders
              \o <<Slash>> \o r.ResourceTypeName
    IN  IF Len(r.ResourceInstanceName) > 0
        THEN id \o <<Slash>> \o r.ResourceInstanceName
        ELSE id

\* ------------------------------------------------------- request inputs
Root == "/"
Methods == {"GET", "PUT", "DELETE", "POST"}

Seg(x) == <<x>>
Canon == <<Seg("subscriptions"), Seg("sub1"), Seg("resourceGroups"), Seg("rg1"),
           Seg("providers"), Seg("ns"), Seg("resourceProviders"), Seg("cp1")>>
\* empty interior segments, as in the edge-case test of the parser
Gappy == <<Seg("subscriptions"), <<>>, Seg("resourceGroups"), <<>>,
           Seg("providers"), Seg("ns"), Seg("resourceProviders"), <<>>>>
\* label positions that do not carry the literal labels
Odd   == <<Seg("x"), Seg("sub1"), Seg("x"), Seg("rg1"),
           Seg("x"), Seg("ns"), Seg("x"), Seg("cp1")>>
Prefixes == {Canon, Gappy, Odd}

TypeNames == {Seg("safes"), Seg("accounts"), Seg("widgets"), Seg("Safes")}
InstanceNames ==
    {<<>>, <<"s1">>, <<"s2">>, <<"s1", Dot, "a1">>, <<"s2", Dot, "a1">>,
     <<"s1", Dot>>, <<Dot, "a1">>, <<"s1", Dot, "a1", Dot, "b">>}

HeaderSegs ==
    {SubSeq(Canon, 1, n) : n \in 0..8}
    \cup {p \o <<t>> : p \in Prefixes, t \in TypeNames}
    \cup {Canon \o <<t, i>> \o [k \in 1..e |-> Seg("extra")] :
              t \in TypeNames, i \in InstanceNames, e \in 0..MaxExtra}
    \cup {p \o <<Seg("safes"), Seg("s1")>> : p \in {Gappy, Odd}}

\* Values of the X-Ms-Customproviders-Requestpath header; <<>> is "absent".
Headers ==
    {Repeat(Slash, l) \o Join(segs, Slash) \o Repeat(Slash, t) :
         segs \in HeaderSegs, l \in 0..MaxSlash, t \in 0..MaxSlash}

\* A request body after json decoding: ok = FALSE is a body the decoder
\* rejects (absent, not JSON, wrong field types); a missing field is "".
\* Bodies are those a safe template sends (safeName, description) and those
\* an account template sends (safeName, platformId), fields left out or not.
NoBody == [ok |-> FALSE, safeName |-> <<>>, platformId |-> <<>>, description |-> <<>>]
Bodies ==
    {NoBody}
    \cup [ok : {TRUE}, safeName : {<<>>, <<"s1">>, <<"s2">>},
          platformId : {<<>>}, description : {<<>>, <<"d">>}]
    \cup [ok : {TRUE}, safeName : {<<>>, <<"s1">>, <<"s2">>},
          platformId : {<<>>, <<"p1">>}, description : {<<>>}]
FullBody == [ok |-> TRUE, safeName |-> <<"s1">>, platformId |-> <<"p1">>,
             description |-> <<>>]
BodiesFor(m) == IF m = "PUT" THEN Bodies ELSE {NoBody, FullBody}

Requests ==
    UNION {{[method |-> m, path |-> Root, header |-> h, body |-> b] :
                h \in Headers, b \in BodiesFor(m)} : m \in Methods}
    \cup {[method |-> m, path |-> "/other", header |-> h, body |-> NoBody] :
         m \in Methods, h \in {<<>>, Join(Canon \o <<Seg("safes"), Seg("s1")>>, Slash)}}
NoRequest == [method |-> "", path |-> "", header |-> <<>>, body |-> NoBody]

\* --------------------------------------------------- vault (pam.Client)
\* status codes the client hands back: with an error value (0: the call never
\* got an HTTP answer) and without one
ErrStatuses == {0, 404, 500}
OkStatuses == {200, 404, 500}
NoSafe == [SafeName |-> <<>>, SafeURLID |-> <<>>, Description |-> <<>>]
Safe1 == [SafeName |-> <<"s1">>, SafeURLID |-> <<"sid1">>, Description |-> <<"d">>]
AddSafeOutcomes ==
    [err : {TRUE}, status : ErrStatuses, SafeURLID : {<<>>}]
    \cup [err : {FALSE}, status : OkStatuses, SafeURLID : {<<"sid1">>}]
GetSafeOutcomes ==
    [err : {TRUE}, status : ErrStatuses, safe : {NoSafe}]
    \cup [err : {FALSE}, status : OkStatuses, safe : {Safe1}]
AddAccountOutcomes ==
    [err : {TRUE}, status : ErrStatuses, ID : {<<>>}]
    \cup [err : {FALSE}, status : OkStatuses, ID : {<<>>, <<"id1">>}]

Acct(n, i) == [Name |-> n, ID |-> i]
A1 == Acct(<<"a1">>, <<"id1">>)
A1bis == Acct(<<"a1">>, <<"id9">>)
A2 == Acct(<<"a2">>, <<"id2">>)
A1b == Acct(<<"a1", Dot, "b">>, <<"id3">>)
NoAcct == Acct(<<>>, <<>>)
\* *pam.GetAccountsResponse: a nil pointer or a Count with its Value list
NilResponse == [nil |-> TRUE, Count |-> 0, Value |-> <<>>]
AccountLists == {<<>>, <<A1>>, <<A2>>, <<A2, A1>>, <<A1bis, A1>>, <<A1b>>}
\* Count is the vault's own field; it is Len(Value) or (a stale count) 0
AccountsResponses ==
    {r \in [nil : {FALSE}, Count : {0, 1, 2}, Value : AccountLists] :
         r.Count \in {0, Len(r.Value)}}
GetAccountsOutcomes ==
    [err : {TRUE}, status : {0, 500}, Response : {NilResponse}]
    \cup [err : {FALSE}, status : {200}, Response : AccountsResponses \cup {NilResponse}]

\* ----------------------------------------------------- responses, events
NoProps == [safeName |-> <<>>, safeID |-> <<>>, description |-> <<>>,
            id |-> <<>>, name |-> <<>>, provisioningState |-> ""]
NoResponse == [status |-> 0, kind |-> "none", code |-> "", message |-> "",
               id |-> <<>>, name |-> <<>>, type |-> <<>>, props |-> NoProps]

\* One interaction with the vault side (or a sleep), in program order: the
\* operation, its name argument, the error value and status code it returned
\* and, for GetAccounts, the Count of the result (0 when there is none).
EvCount(op, arg, err, status, count) ==
    [op |-> op, arg |-> arg, err |-> err, status |-> status, count |-> count]
Ev(op, arg, err, status) == EvCount(op, arg, err, status, 0)
Count(l, op) == Cardinality({k \in 1..Len(l) : l[k].op = op})

\* http.ResponseWriter.WriteHeader panics on a code outside 100..999.
ValidStatus(code) == code >= 100 /\ code <= 999

\* sendJSONError: {"error":{"code":errorCode,"message":message}} under `code`
sendJSONError(code, errorCode, message) ==
    IF ~ValidStatus(code)
    THEN [fault |-> TRUE, resp |-> NoResponse]
    ELSE [fault |-> FALSE,
          resp |-> [NoResponse EXCEPT !.status = code, !.kind = "error",
                                      !.code = errorCode, !.message = message]]

\* CustomProviderResponse written with the given status
sendResponse(code, cp, props) ==
    [fault |-> FALSE,
     resp |-> [status |-> code, kind |-> "success", code |-> "", message |-> "",
               id |-> ID(cp), name |-> cp.ResourceInstanceName,
               type |-> <<"Microsoft", Dot, "CustomProviders", Slash, "resourceProviders", Slash>>
                        \o cp.ResourceTypeName,
               props |-> props]]

\* a fixed non-envelope JSON body
sendRaw(code, text) ==
    [fault |-> FALSE,
     resp |-> [NoResponse EXCEPT !.status = code, !.kind = "raw", !.message = text]]

\* validEnvVars / createPAMClient: env is "all four variables are set",
\* refresh is the outcome of client.RefreshSession()
createPAMClient(env, refresh) ==
    IF ~env
    THEN [ok |-> FALSE, message |-> "missing required environment variables",
          log |-> <<Ev("createPAMClient", <<>>, TRUE, 0)>>]
    ELSE IF ~refresh
    THEN [ok |-> FALSE, message |-> "could not refresh session",
          log |-> <<Ev("RefreshSession", <<>>, TRUE, 0),
                    Ev("createPAMClient", <<>>, TRUE, 0)>>]
    ELSE [ok |-> TRUE, message |-> "",
          log |-> <<Ev("RefreshSession", <<>>, FALSE, 0),
                    Ev("createPAMClient", <<>>, FALSE, 0)>>]

\* ------------------------------------------------------------ safehandlers
\* Mutant: only the error value is looked at, the status code is not.
CreateSafeIgnoreStatus(v) ==
    IF v.err THEN [ok |-> FALSE, message |-> "failed to add safe", safeID |-> <<>>]
    ELSE [ok |-> TRUE, message |-> "", safeID |-> v.SafeURLID]

\* createSafe: the id, or an error, from pamClient.AddSafe's outcome v
createSafe(v) ==
    IF v.err THEN [ok |-> FALSE, message |-> "failed to add safe", safeID |-> <<>>]
    ELSE IF v.status >= 300
    THEN [ok |-> FALSE, message |-> "PAM API returned status", safeID |-> <<>>]
    ELSE [ok |-> TRUE, message |-> "", safeID |-> v.SafeURLID]

deleteSafe == [ok |-> FALSE, message |-> "delete safe functionality not implemented"]

WithLog(r, l) == [fault |-> r.fault, resp |-> r.resp, log |-> l]

\* Mutant: the safe name reported is the instance name of the path.
CreateSafeNameFromPath(cp, body, env, refresh, v) ==
    IF ~body.ok
    THEN WithLog(sendJSONError(400, "InvalidRequestBody", "Invalid request body"), <<>>)
    ELSE LET c == createPAMClient(env, refresh) IN
    IF ~c.ok
    THEN WithLog(sendJSONError(500, "PAMClientError", c.message), c.log)
    ELSE LET s == createSafe(v)
             l == c.log \o <<Ev("AddSafe", body.safeName, v.err, v.status)>> IN
    IF ~s.ok
    THEN WithLog(sendJSONError(500, "SafeCreationError", s.message), l)
    ELSE WithLog(sendResponse(201, cp,
                     [NoProps EXCEPT !.safeName = cp.ResourceInstanceName,
                                     !.safeID = s.safeID,
                                     !.description = body.description,
                                     !.provisioningState = "Succeeded"]), l)

handleCreateSafe(cp, body, env, refresh, v) ==
    IF ~body.ok
    THEN WithLog(sendJSONError(400, "InvalidRequestBody", "Invalid request body"), <<>>)
    ELSE LET c == createPAMClient(env, refresh) IN
    IF ~c.ok
    THEN WithLog(sendJSONError(500, "PAMClientError", c.message), c.log)
    ELSE LET s == createSafe(v)
             l == c.log \o <<Ev("AddSafe", body.safeName, v.err, v.status)>> IN
    IF ~s.ok
    THEN WithLog(sendJSONError(500, "SafeCreationError", s.message), l)
    ELSE WithLog(sendResponse(201, cp,
                     [NoProps EXCEPT !.safeName = body.safeName, !.safeID = s.safeID,
                                     !.description = body.description,
                                     !.provisioningState = "Succeeded"]), l)

\* Mutant: a delete that reports success once the client is there.
DeleteSafeStubbed(cp, env, refresh) ==
    LET c == createPAMClient(env, refresh) IN
    IF ~c.ok
    THEN WithLog(sendJSONError(500, "PAMClientError", c.message), c.log)
    ELSE WithLog(sendRaw(204, ""), c.log)

handleDeleteSafe(cp, env, refresh) ==
    LET c == createPAMClient(env, refresh) IN
    IF ~c.ok
    THEN WithLog(sendJSONError(500, "PAMClientError", c.message), c.log)
    ELSE IF ~deleteSafe.ok
    THEN WithLog(sendJSONError(500, "SafeDeletionError", deleteSafe.message), c.log)
    ELSE WithLog(sendRaw(204, ""), c.log)

\* Mutant: the not-found test is dropped, 404 is treated like any status >= 300.
GetSafeNoNotFound(cp, env, refresh, v) ==
    LET c == createPAMClient(env, refresh) IN
    IF ~c.ok
    THEN WithLog(sendJSONError(500, "PAMClientError", c.message), c.log)
    ELSE LET l == c.log \o <<Ev("GetSafeDetails", cp.ResourceInstanceName, v.err, v.status)>> IN
    IF v.err
    THEN WithLog(sendJSONError(v.status, "GetSafeDetailsError", "Failed to get safe"), l)
    ELSE IF v.status >= 300
    THEN WithLog(sendJSONError(v.status, "GetSafeDetailsError", "non-success"), l)
    ELSE WithLog(sendResponse(200, cp,
                     [NoProps EXCEPT !.safeName = v.safe.SafeName,
                                     !.safeID = v.safe.SafeURLID,
                                     !.description = v.safe.Description,
                                     !.provisioningState = "Succeeded"]), l)

\* Mutant: a failed GetSafeDetails call is made a second time.
GetSafeRetry(cp, env, refresh, v) ==
    LET c == createPAMClient(env, refresh) IN
    IF ~c.ok
    THEN WithLog(sendJSONError(500, "PAMClientError", c.message), c.log)
    ELSE LET e == Ev("GetSafeDetails", cp.ResourceInstanceName, v.err, v.status)
             l == c.log \o (IF v.err THEN <<e, e>> ELSE <<e>>) IN
    IF v.err
    THEN WithLog(sendJSONError(v.status, "GetSafeDetailsError", "Failed to get safe"), l)
    ELSE IF v.status = 404
    THEN WithLog(sendJSONError(v.status, "SafeNotFound", "Safe not found"), l)
    ELSE IF v.status >= 300
    THEN WithLog(sendJSONError(v.status, "GetSafeDetailsError", "non-success"), l)
    ELSE WithLog(sendResponse(200, cp,
                     [NoProps EXCEPT !.safeName = v.safe.SafeName,
                                     !.safeID = v.safe.SafeURLID,
                                     !.description = v.safe.Description,
                                     !.provisioningState = "Succeeded"]), l)

\* v is the outcome (safe, retcode, err) of pamClient.GetSafeDetails
handleGetSafe(cp, env, refresh, v) ==
    LET c == createPAMClient(env, refresh) IN
    IF ~c.ok
    THEN WithLog(sendJSONError(500, "PAMClientError", c.message), c.log)
    ELSE LET l == c.log \o <<Ev("GetSafeDetails", cp.ResourceInstanceName, v.err, v.status)>> IN
    IF v.err
    THEN WithLog(sendJSONError(v.status, "GetSafeDetailsError", "Failed to get safe"), l)
    ELSE IF v.status = 404
    THEN WithLog(sendJSONError(v.status, "SafeNotFound", "Safe not found"), l)
    ELSE IF v.status >= 300
    THEN WithLog(sendJSONError(v.status, "GetSafeDetailsError", "non-success"), l)
    ELSE WithLog(sendResponse(200, cp,
                     [NoProps EXCEPT !.safeName = v.safe.SafeName,
                                     !.safeID = v.safe.SafeURLID,
                                     !.description = v.safe.Description,
                                     !.provisioningState = "Succeeded"]), l)

\* --------------------------------------------------------- accounthandlers
\* Mutant: a name with an empty safe part or an empty account part is refused.
ParseNameStrict(resname) ==
    LET parts == Split(resname, Dot) IN
    IF Len(parts) < 2 \/ Len(parts[1]) = 0 \/ Len(Join(Tail(parts), Dot)) = 0
    THEN [ok |-> FALSE, safename |-> <<>>, acctname |-> <<>>]
    ELSE [ok |-> TRUE, safename |-> parts[1], acctname |-> Join(Tail(parts), Dot)]

\* Mutant: the account name is the second part alone, later parts are dropped.
ParseNameTwoParts(resname) ==
    LET parts == Split(resname, Dot) IN
    IF Len(parts) < 2
    THEN [ok |-> FALSE, safename |-> <<>>, acctname |-> <<>>]
    ELSE [ok |-> TRUE, safename |-> parts[1], acctname |-> parts[2]]

parseSafeNameAccountName(resname) ==
    LET parts == Split(resname, Dot) IN
    IF Len(parts) < 2
    THEN [ok |-> FALSE, safename |-> <<>>, acctname |-> <<>>]
    ELSE [ok |-> TRUE, safename |-> parts[1], acctname |-> Join(Tail(parts), Dot)]

\* *GetAccountsResponse: ptrNil is the nil pointer, else the wrapped Response
NilAccounts == [ptrNil |-> TRUE, Response |-> NilResponse]

\* GetAccounts(w, r, safename) with g the outcome of pamClient.GetAccounts
GetAccounts(env, refresh, safename, g) ==
    LET c == createPAMClient(env, refresh) IN
    IF ~c.ok
    THEN [err |-> TRUE, message |-> c.message, accounts |-> NilAccounts, log |-> c.log]
    ELSE LET l == c.log \o <<EvCount("GetAccounts", safename, g.err, g.status,
                                    IF g.err \/ g.Response.nil THEN 0
                                    ELSE g.Response.Count)>> IN
    IF g.err
    THEN [err |-> TRUE, message |-> "error, could not get accounts",
          accounts |-> NilAccounts, log |-> l]
    ELSE [err |-> FALSE, message |-> "",
          accounts |-> [ptrNil |-> FALSE, Response |-> g.Response], log |-> l]

NOTFOUND == Acct(<<>>, <<"NOTFOUND">>)

RECURSIVE FirstMatch(_, _)
FirstMatch(value, matchacctname) ==
    IF value = <<>> THEN NOTFOUND
    ELSE IF Head(value).Name = matchacctname THEN Head(value)
    ELSE FirstMatch(Tail(value), matchacctname)

\* Mutant: the Count of the result is not looked at.
FindAccountIgnoreCount(accounts, matchacctname) ==
    IF accounts.ptrNil
    THEN [ok |-> FALSE, message |-> "response returned nil pointer", account |-> NoAcct]
    ELSE IF accounts.Response.nil
    THEN [ok |-> FALSE, message |-> "response returned nil pointer for Response property",
          account |-> NoAcct]
    ELSE LET getone == FirstMatch(accounts.Response.Value, matchacctname) IN
    IF getone.ID = NOTFOUND.ID
    THEN [ok |-> FALSE, message |-> "account name not found", account |-> NoAcct]
    ELSE [ok |-> TRUE, message |-> "", account |-> getone]

FindAccount(accounts, matchacctname) ==
    IF accounts.ptrNil
    THEN [ok |-> FALSE, message |-> "response returned nil pointer", account |-> NoAcct]
    ELSE IF accounts.Response.nil
    THEN [ok |-> FALSE, message |-> "response returned nil pointer for Response property",
          account |-> NoAcct]
    ELSE LET getone == FirstMatch(accounts.Response.Value, matchacctname) IN
    IF accounts.Response.Count = 0 \/ getone.ID = NOTFOUND.ID
    THEN [ok |-> FALSE, message |-> "account name not found", account |-> NoAcct]
    ELSE [ok |-> TRUE, message |-> "", account |-> getone]

\* Mutant: the test for an empty account name is left out, the lookup goes on.
GetAccountNoEmptyCheck(cp, env, refresh, g) ==
    LET out(r, l, a) == [fault |-> r.fault, resp |-> r.resp, log |-> l, getresp |-> a]
        p == parseSafeNameAccountName(cp.ResourceInstanceName)
    IN
    IF ~p.ok
    THEN out(sendJSONError(409, "ResourceNameMalformed", "resource name must be in format"),
             <<>>, NilAccounts)
    ELSE LET getresp == GetAccounts(env, refresh, p.safename, g) IN
    IF getresp.err
    THEN out(sendJSONError(409, "GetAccountsError", getresp.message), getresp.log,
             getresp.accounts)
    ELSE LET getone == FindAccount(getresp.accounts, p.acctname) IN
    IF ~getone.ok
    THEN out(sendJSONError(409, "GetAccountsError", getone.message), getresp.log,
             getresp.accounts)
    ELSE out(sendResponse(200, cp,
                 [NoProps EXCEPT !.id = getone.account.ID, !.name = getone.account.Name,
                                 !.provisioningState = "Succeeded"]),
             getresp.log, getresp.accounts)

\* handleGetAccount; getresp is the handler's local of that name (the result
\* of its GetAccounts call, NilAccounts when the call is not reached)
handleGetAccount(cp, env, refresh, g) ==
    LET out(r, l, a) == [fault |-> r.fault, resp |-> r.resp, log |-> l, getresp |-> a]
        p == parseSafeNameAccountName(cp.ResourceInstanceName)
    IN
    IF ~p.ok
    THEN out(sendJSONError(409, "ResourceNameMalformed", "resource name must be in format"),
             <<>>, NilAccounts)
    ELSE IF Len(p.acctname) = 0
    THEN out(sendJSONError(404, "ResourceNotFound", "not found"), <<>>, NilAccounts)
    ELSE LET getresp == GetAccounts(env, refresh, p.safename, g) IN
    IF getresp.err
    THEN out(sendJSONError(409, "GetAccountsError", getresp.message), getresp.log,
             getresp.accounts)
    ELSE LET getone == FindAccount(getresp.accounts, p.acctname) IN
    IF ~getone.ok
    THEN out(sendJSONError(409, "GetAccountsError", getone.message), getresp.log,
             getresp.accounts)
    ELSE out(sendResponse(200, cp,
                 [NoProps EXCEPT !.id = getone.account.ID, !.name = getone.account.Name,
                                 !.provisioningState = "Succeeded"]),
             getresp.log, getresp.accounts)

handleDeleteAccount == WithLog(sendRaw(400, "not implemented"), <<>>)

\* Mutant: a name that does not parse is let through with empty parts.
AddAccountCallNoParse(cp, body, env, refresh, a) ==
    LET stop(m, l) == [go |-> FALSE, message |-> m, log |-> l, ID |-> <<>>,
                       safename |-> <<>>, acctname |-> <<>>]
    IN
    IF ~body.ok THEN stop("invalid body", <<>>)
    ELSE IF Len(body.safeName) = 0 THEN stop("error, safeName is not set", <<>>)
    ELSE IF Len(body.platformId) = 0 THEN stop("error, platformId is not set", <<>>)
    ELSE LET c == createPAMClient(env, refresh) IN
    IF ~c.ok THEN stop(c.message, c.log)
    ELSE LET l == c.log \o <<Ev("AddAccount", body.safeName, a.err, a.status)>> IN
    IF a.err THEN stop("failed to add account", l)
    ELSE IF a.status >= 300 THEN stop("call to priv cloud returned non-success code", l)
    ELSE IF Len(a.ID) = 0 THEN stop("no account id was set in the response", l)
    ELSE LET p == parseSafeNameAccountName(cp.ResourceInstanceName) IN
    [go |-> TRUE, message |-> "", log |-> l, ID |-> a.ID,
     safename |-> p.safename, acctname |-> p.acctname]

\* Mutant: the body's fields are checked after the vault call, not before.
AddAccountCallLateCheck(cp, body, env, refresh, a) ==
    LET stop(m, l) == [go |-> FALSE, message |-> m, log |-> l, ID |-> <<>>,
                       safename |-> <<>>, acctname |-> <<>>]
    IN
    IF ~body.ok THEN stop("invalid body", <<>>)
    ELSE LET c == createPAMClient(env, refresh) IN
    IF ~c.ok THEN stop(c.message, c.log)
    ELSE LET l == c.log \o <<Ev("AddAccount", body.safeName, a.err, a.status)>> IN
    IF a.err THEN stop("failed to add account", l)
    ELSE IF a.status >= 300 THEN stop("call to priv cloud returned non-success code", l)
    ELSE IF Len(a.ID) = 0 THEN stop("no account id was set in the response", l)
    ELSE IF Len(body.safeName) = 0 THEN stop("error, safeName is not set", l)
    ELSE IF Len(body.platformId) = 0 THEN stop("error, platformId is not set", l)
    ELSE LET p == parseSafeNameAccountName(cp.ResourceInstanceName) IN
    IF ~p.ok THEN stop("resource name must be in format", l)
    ELSE [go |-> TRUE, message |-> "", log |-> l, ID |-> a.ID,
          safename |-> p.safename, acctname |-> p.acctname]

\* AddAccount, first part: body checks, client, pamClient.AddAccount (outcome
\* a) and the parse of the instance name.  go = TRUE: continue to GetAccounts.
AddAccountCall(cp, body, env, refresh, a) ==
    LET stop(m, l) == [go |-> FALSE, message |-> m, log |-> l, ID |-> <<>>,
                       safename |-> <<>>, acctname |-> <<>>]
    IN
    IF ~body.ok THEN stop("invalid body", <<>>)
    ELSE IF Len(body.safeName) = 0 THEN stop("error, safeName is not set", <<>>)
    ELSE IF Len(body.platformId) = 0 THEN stop("error, platformId is not set", <<>>)
    ELSE LET c == createPAMClient(env, refresh) IN
    IF ~c.ok THEN stop(c.message, c.log)
    ELSE LET l == c.log \o <<Ev("AddAccount", body.safeName, a.err, a.status)>> IN
    IF a.err THEN stop("failed to add account", l)
    ELSE IF a.status >= 300 THEN stop("call to priv cloud returned non-success code", l)
    ELSE IF Len(a.ID) = 0 THEN stop("no account id was set in the response", l)
    ELSE LET p == parseSafeNameAccountName(cp.ResourceInstanceName) IN
    IF ~p.ok THEN stop("resource name must be in format", l)
    ELSE [go |-> TRUE, message |-> "", log |-> l, ID |-> a.ID,
          safename |-> p.safename, acctname |-> p.acctname]

\* handleCreateAccount after AddAccount returned an error
CreateAccountError(message) == sendJSONError(409, "AddAccountError", message)

\* handleCreateAccount after AddAccount returned its response
CreateAccountCreated(cp, addID) ==
    sendResponse(201, cp, [NoProps EXCEPT !.id = addID, !.provisioningState = "Succeeded"])

\* retries of the poll loop in AddAccount (count := 3)
PollCount == 3

\* the loop's break condition, for a call that returned no error
BreakLoop(accounts) ==
    ~accounts.ptrNil /\ ~accounts.Response.nil /\ accounts.Response.Count > 0

\* --------------------------------------------------------------- routing
HandledMethods == {"GET", "PUT", "DELETE"}

handleCatchAll == sendJSONError(404, "EndpointNotFound", "Endpoint not found")

\* Mutant: the probe is answered without its payload.
GetRootNoContent(r) ==
    IF r.method = "GET" /\ r.path = Root THEN sendRaw(204, "")
    ELSE handleCatchAll

handleGetRoot(r) ==
    IF r.method = "GET" /\ r.path = Root THEN sendRaw(200, "{status:ok}")
    ELSE handleCatchAll

\* Mutant: a GET on a safe is handed to the create handler.
HandleSafeGetCreates(method) ==
    CASE method = "PUT" -> "handleCreateSafe"
      [] method = "DELETE" -> "handleDeleteSafe"
      [] method = "GET" -> "handleCreateSafe"
      [] OTHER -> ""

\* handleSafe / handleAccount: the handler a verb selects ("" for none, in
\* which case the handler returns without writing: an empty 200)
handleSafe(method) ==
    CASE method = "PUT" -> "handleCreateSafe"
      [] method = "DELETE" -> "handleDeleteSafe"
      [] method = "GET" -> "handleGetSafe"
      [] OTHER -> ""

handleAccount(method) ==
    CASE method = "GET" -> "handleGetAccount"
      [] method = "PUT" -> "handleCreateAccount"
      [] method = "DELETE" -> "handleDeleteAccount"
      [] OTHER -> ""

Local(r, tr, cp) == [fault |-> r.fault, resp |-> r.resp, next |-> "", trace |-> tr,
                     cp |-> cp]

\* Mutant: the type name is matched without regard to case.
DispatchAnyCase(typeName, method) ==
    CASE typeName \in {<<"safes">>, <<"Safes">>} -> <<"handleSafe", handleSafe(method)>>
      [] typeName = <<"accounts">> -> <<"handleAccount", handleAccount(method)>>
      [] OTHER -> <<>>

\* the switch on cpRequest.ResourceTypeName: the router function and the
\* verb handler it selects, <<>> for the default branch
Dispatch(typeName, method) ==
    CASE typeName = <<"safes">> -> <<"handleSafe", handleSafe(method)>>
      [] typeName = <<"accounts">> -> <<"handleAccount", handleAccount(method)>>
      [] OTHER -> <<>>

\* handleRootRequest: a local answer, a fault, or the handler to run next
handleRootRequest(r) ==
    IF HasCustomProviderRequestPath(r.header)
    THEN LET p == ParseCustomProviderHeaderRequestPath(r.header) IN
         IF p.outcome = "panic"
         THEN Local([fault |-> TRUE, resp |-> NoResponse], <<"handleRootRequest">>, p.req)
         ELSE IF p.outcome = "err"
         THEN Local(sendJSONError(400, "BadRequestPath", "Invalid header"),
                    <<"handleRootRequest">>, p.req)
         ELSE LET h == Dispatch(p.req.ResourceTypeName, r.method)
              IN IF h = <<>>
                 THEN Local(sendJSONError(405, "MethodNotAllowed", "Action is not supported"),
                            <<"handleRootRequest">>, p.req)
                 ELSE IF h[2] = ""
                 THEN Local(sendRaw(200, ""), <<"handleRootRequest", h[1]>>, p.req)
                 ELSE [fault |-> FALSE, resp |-> NoResponse, next |-> h[2],
                       trace |-> <<"handleRootRequest", h[1], h[2]>>, cp |-> p.req]
    ELSE IF r.method = "GET"
    THEN Local(handleGetRoot(r), <<"handleRootRequest", "handleGetRoot">>, EmptyRequestPath)
    ELSE Local(handleCatchAll, <<"handleRootRequest", "handleCatchAll">>, EmptyRequestPath)

\* main's router: "/" with GET, PUT or DELETE reaches handleRootRequest,
\* everything else the catch-all
Router(r) ==
    IF r.path = Root /\ r.method \in HandledMethods
    THEN handleRootRequest(r)
    ELSE Local(handleCatchAll, <<"handleCatchAll">>, EmptyRequestPath)

\* ----------------------------------------------------------- state machine
VARIABLES
    pc,         \* where the request's goroutine is
    req,        \* the inbound request
    envOK,      \* the four required environment variables are set
    cpRequest,  \* the parsed routing header handed to the resource handler
    trace,      \* the handler functions entered, in order
    log,        \* vault-side interactions and sleeps, in order
    resp,       \* the response written (kind "none": nothing written)
    local,      \* AddAccount's locals across its vault calls
    conc,       \* requests served at the same time: one record per goroutine
    vault       \* the vault's safes and accounts, as the vault holds them

vars == <<pc, req, envOK, cpRequest, trace, log, resp, local, conc, vault>>

NoLocal == [ID |-> <<>>, safename |-> <<>>, acctname |-> <<>>,
            getresp |-> NilAccounts, i |-> 0]

\* net/http runs every request in a goroutine of its own; all a handler
\* keeps is in its arguments and locals
Workers == 1..MaxWorkers
NoWorker == [pc |-> "idle", req |-> NoRequest, cp |-> EmptyRequestPath,
             resp |-> NoResponse, got |-> <<>>, local |-> NoLocal]
EmptyVault == [safes |-> {}, accounts |-> {}]

Init ==
    /\ pc = "idle"
    /\ req = NoRequest
    /\ envOK \in BOOLEAN
    /\ cpRequest = EmptyRequestPath
    /\ trace = <<>>
    /\ log = <<>>
    /\ resp = NoResponse
    /\ local = NoLocal
    /\ conc = [w \in Workers |-> NoWorker]
    /\ vault = EmptyVault

\* a handler returned result r: the response is written, or the goroutine
\* panicked and net/http dropped the connection without a response
Finish(r) ==
    /\ pc' = IF r.fault THEN "fault" ELSE "done"
    /\ resp' = r.resp
    /\ log' = log \o r.log

\* The server accepts a request and routes it.
ServeHTTP ==
    /\ pc = "idle"
    /\ \E r \in Requests :
         LET d == Router(r) IN
         /\ req' = r
         /\ trace' = d.trace
         /\ cpRequest' = d.cp
         /\ resp' = d.resp
         /\ pc' = IF d.fault THEN "fault" ELSE IF d.next = "" THEN "done" ELSE d.next
    /\ UNCHANGED <<conc, vault, envOK, log, local>>

HandleCreateSafe(refresh, v) ==
    /\ pc = "handleCreateSafe"
    /\ Finish(handleCreateSafe(cpRequest, req.body, envOK, refresh, v))
    /\ UNCHANGED <<conc, vault, req, envOK, cpRequest, trace, local>>

HandleDeleteSafe(refresh) ==
    /\ pc = "handleDeleteSafe"
    /\ Finish(handleDeleteSafe(cpRequest, envOK, refresh))
    /\ UNCHANGED <<conc, vault, req, envOK, cpRequest, trace, local>>

HandleGetSafe(refresh, v) ==
    /\ pc = "handleGetSafe"
    /\ Finish(handleGetSafe(cpRequest, envOK, refresh, v))
    /\ UNCHANGED <<conc, vault, req, envOK, cpRequest, trace, local>>

HandleGetAccount(refresh, g) ==
    /\ pc = "handleGetAccount"
    /\ LET r == handleGetAccount(cpRequest, envOK, refresh, g) IN
       /\ Finish(r)
       /\ local' = [local EXCEPT !.getresp = r.getresp]
    /\ UNCHANGED <<conc, vault, req, envOK, cpRequest, trace>>

HandleDeleteAccount ==
    /\ pc = "handleDeleteAccount"
    /\ Finish(handleDeleteAccount)
    /\ UNCHANGED <<conc, vault, req, envOK, cpRequest, trace, local>>

\* handleCreateAccount -> AddAccount up to the parse of the instance name
HandleCreateAccount(refresh, a) ==
    /\ pc = "handleCreateAccount"
    /\ LET r == AddAccountCall(cpRequest, req.body, envOK, refresh, a) IN
       IF r.go
       THEN /\ pc' = "AddAccount.get"
            /\ log' = log \o r.log
            /\ local' = [NoLocal EXCEPT !.ID = r.ID, !.safename = r.safename,
                                        !.acctname = r.acctname]
            /\ resp' = resp
       ELSE /\ Finish(WithLog(CreateAccountError(r.message), r.log))
            /\ local' = local
    /\ UNCHANGED <<conc, vault, req, envOK, cpRequest, trace>>

\* AddAccount: the GetAccounts call made before the loop; its result is
\* logged and the loop is entered whatever it holds
AddAccountGet(refresh, g) ==
    /\ pc = "AddAccount.get"
    /\ LET r == GetAccounts(envOK, refresh, local.safename, g) IN
       IF r.err
       THEN /\ Finish(WithLog(CreateAccountError(r.message), r.log))
            /\ local' = local
       ELSE /\ log' = log \o r.log
            /\ local' = [local EXCEPT !.getresp = r.accounts, !.i = 1]
            /\ pc' = "AddAccount.sleep"
            /\ resp' = resp
    /\ UNCHANGED <<conc, vault, req, envOK, cpRequest, trace>>

\* AddAccount: time.Sleep(2 * time.Second) at the top of the loop body
AddAccountSleep ==
    /\ pc = "AddAccount.sleep"
    /\ log' = Append(log, Ev("Sleep", <<>>, FALSE, 0))
    /\ pc' = "AddAccount.poll"
    /\ UNCHANGED <<conc, vault, req, envOK, cpRequest, trace, resp, local>>

\* AddAccount: the GetAccounts call of loop round local.i, the log line that
\* reads getresp.Response (a nil dereference when the call failed), the break
\* test and i++
AddAccountPoll(refresh, g) ==
    /\ pc = "AddAccount.poll"
    /\ LET r == GetAccounts(envOK, refresh, local.safename, g) IN
       /\ log' = log \o r.log
       /\ local' = [local EXCEPT !.getresp = r.accounts,
                                 !.i = IF r.accounts.ptrNil \/ BreakLoop(r.accounts)
                                       THEN @ ELSE @ + 1]
       /\ pc' = IF r.accounts.ptrNil THEN "fault"
                ELSE IF ~r.err /\ BreakLoop(r.accounts) THEN "AddAccount.find"
                ELSE IF local.i + 1 <= PollCount THEN "AddAccount.sleep"
                ELSE "AddAccount.find"
    /\ UNCHANGED <<conc, vault, req, envOK, cpRequest, trace, resp>>

\* AddAccount: FindAccount on the last result, then handleCreateAccount's reply
AddAccountFind ==
    /\ pc = "AddAccount.find"
    /\ LET getone == FindAccount(local.getresp, local.acctname) IN
       IF ~getone.ok
       THEN Finish(WithLog(CreateAccountError(getone.message), <<>>))
       ELSE Finish(WithLog(CreateAccountCreated(cpRequest, local.ID), <<>>))
    /\ UNCHANGED <<conc, vault, req, envOK, cpRequest, trace, local>>

Next ==
    \/ ServeHTTP
    \/ \E refresh \in BOOLEAN, v \in AddSafeOutcomes : HandleCreateSafe(refresh, v)
    \/ \E refresh \in BOOLEAN : HandleDeleteSafe(refresh)
    \/ \E refresh \in BOOLEAN, v \in GetSafeOutcomes : HandleGetSafe(refresh, v)
    \/ \E refresh \in BOOLEAN, g \in GetAccountsOutcomes : HandleGetAccount(refresh, g)
    \/ HandleDeleteAccount
    \/ \E refresh \in BOOLEAN, a \in AddAccountOutcomes : HandleCreateAccount(refresh, a)
    \/ \E refresh \in BOOLEAN, g \in GetAccountsOutcomes : AddAccountGet(refresh, g)
    \/ AddAccountSleep
    \/ \E refresh \in BOOLEAN, g \in GetAccountsOutcomes : AddAccountPoll(refresh, g)
    \/ AddAccountFind

Spec == Init /\ [][Next]_vars

\* ------------------------------------------------- requests served at once
\* The vault as the SDK calls see it.  Each operation gives the outcome the
\* caller receives and the vault afterwards; fail is a call that did not get
\* through (transport error).
VaultSafe(name) == [SafeName |-> name, SafeURLID |-> <<"sid1">>, Description |-> <<>>]
VaultAcct(safe, name) == [safe |-> safe, Name |-> name, ID |-> <<"id1">>]
VaultStates ==
    [safes : SUBSET {<<"s1">>}, accounts : SUBSET {VaultAcct(<<"s1">>, <<"a1">>)}]

VaultAddSafe(name, fail) ==
    IF fail
    THEN [out |-> [err |-> TRUE, status |-> 0, SafeURLID |-> <<>>], vault |-> vault]
    ELSE IF name \in vault.safes \/ name = <<>>
    THEN [out |-> [err |-> FALSE, status |-> 409, SafeURLID |-> <<>>], vault |-> vault]
    ELSE [out |-> [err |-> FALSE, status |-> 201, SafeURLID |-> VaultSafe(name).SafeURLID],
          vault |-> [vault EXCEPT !.safes = @ \cup {name}]]

\* Mutant: a safe once read with success is answered from a process-wide
\* cache from then on.
GetSafeDetailsCached(name, fail) ==
    IF \E w \in Workers : /\ conc[w].pc = "done" /\ conc[w].req.method = "GET"
                          /\ conc[w].resp.status = 200
                          /\ conc[w].resp.props.safeName = name
    THEN [err |-> FALSE, status |-> 200, safe |-> VaultSafe(name)]
    ELSE IF fail THEN [err |-> TRUE, status |-> 500, safe |-> NoSafe]
    ELSE IF name \in vault.safes
    THEN [err |-> FALSE, status |-> 200, safe |-> VaultSafe(name)]
    ELSE [err |-> FALSE, status |-> 404, safe |-> NoSafe]

\* pamClient.GetSafeDetails(name) on the client the request has just built:
\* the vault is asked each time
GetSafeDetails(name, fail) ==
    IF fail THEN [err |-> TRUE, status |-> 500, safe |-> NoSafe]
    ELSE IF name \in vault.safes
    THEN [err |-> FALSE, status |-> 200, safe |-> VaultSafe(name)]
    ELSE [err |-> FALSE, status |-> 404, safe |-> NoSafe]

VaultAddAccount(safe, name, fail) ==
    IF fail
    THEN [out |-> [err |-> TRUE, status |-> 0, ID |-> <<>>], vault |-> vault]
    ELSE IF safe \notin vault.safes
    THEN [out |-> [err |-> FALSE, status |-> 404, ID |-> <<>>], vault |-> vault]
    ELSE IF VaultAcct(safe, name) \in vault.accounts
    THEN [out |-> [err |-> FALSE, status |-> 409, ID |-> <<>>], vault |-> vault]
    ELSE [out |-> [err |-> FALSE, status |-> 201, ID |-> VaultAcct(safe, name).ID],
          vault |-> [vault EXCEPT !.accounts = @ \cup {VaultAcct(safe, name)}]]

\* pamClient.GetAccounts with the filter "safeName eq <safename>"
VaultGetAccounts(safename, fail) ==
    IF fail THEN [err |-> TRUE, status |-> 500, Response |-> NilResponse]
    ELSE LET value == IF VaultAcct(safename, <<"a1">>) \in vault.accounts
                      THEN <<A1>> ELSE <<>>
         IN  [err |-> FALSE, status |-> 200,
              Response |-> [nil |-> FALSE, Count |-> Len(value), Value |-> value]]

\* the requests sent at the same time: one address per resource type
ConcHeader(t, i) == Join(Canon \o <<Seg(t), i>>, Slash)
ConcRequests ==
    {[method |-> "PUT", path |-> Root, header |-> ConcHeader("safes", <<"s1">>),
      body |-> [ok |-> TRUE, safeName |-> <<"s1">>, platformId |-> <<>>,
                description |-> <<"d">>]],
     [method |-> "PUT", path |-> Root,
      header |-> ConcHeader("accounts", <<"s1", Dot, "a1">>), body |-> FullBody]}
    \cup {[method |-> m, path |-> Root, header |-> ConcHeader(t, i), body |-> NoBody] :
              m \in {"GET", "DELETE"},
              t \in {"safes"}, i \in {<<"s1">>}}
    \cup {[method |-> m, path |-> Root, header |-> ConcHeader(t, i), body |-> NoBody] :
              m \in {"GET", "DELETE"},
              t \in {"accounts"}, i \in {<<"s1", Dot, "a1">>}}

\* what a request received from outside on one call: the session refresh and,
\* when the vault was reached, the vault's outcome
Got(refresh, reached, out, data) ==
    [refresh |-> refresh, reached |-> reached,
     err |-> reached /\ out.err, status |-> IF reached THEN out.status ELSE 0,
     data |-> IF reached THEN data ELSE <<>>]
Reached(l, op) == \E k \in 1..Len(l) : l[k].op = op

ConcInit == Init

\* worker w ends its handler with result r, having received g
ConcFinish(w, r, g) ==
    conc' = [conc EXCEPT ![w].pc = IF r.fault THEN "fault" ELSE "done",
                         ![w].resp = r.resp,
                         ![w].got = Append(@, g)]

Frame == UNCHANGED <<pc, req, envOK, cpRequest, trace, log, resp, local>>

\* Goroutines are alike: they are numbered in the order their requests arrive.
ConcServeHTTP(w) ==
    /\ conc[w].pc = "idle"
    /\ \A v \in Workers : v < w => conc[v].pc # "idle"
    /\ \E r \in ConcRequests :
         LET d == Router(r) IN
         conc' = [conc EXCEPT ![w].req = r, ![w].cp = d.cp, ![w].resp = d.resp,
                              ![w].pc = IF d.fault THEN "fault"
                                        ELSE IF d.next = "" THEN "done" ELSE d.next]
    /\ vault' = vault
    /\ Frame

ConcCreateSafe(w, refresh, fail) ==
    /\ conc[w].pc = "handleCreateSafe"
    /\ LET me == conc[w]
           a == VaultAddSafe(me.req.body.safeName, fail)
           r == handleCreateSafe(me.cp, me.req.body, envOK, refresh, a.out)
           reached == Reached(r.log, "AddSafe")
       IN  /\ ConcFinish(w, r, Got(refresh, reached, a.out, a.out.SafeURLID))
           /\ vault' = IF reached THEN a.vault ELSE vault
    /\ Frame

ConcDeleteSafe(w, refresh) ==
    /\ conc[w].pc = "handleDeleteSafe"
    /\ ConcFinish(w, handleDeleteSafe(conc[w].cp, envOK, refresh),
                  Got(refresh, FALSE, NoSafe, <<>>))
    /\ vault' = vault
    /\ Frame

ConcGetSafe(w, refresh, fail) ==
    /\ conc[w].pc = "handleGetSafe"
    /\ LET me == conc[w]
           v == GetSafeDetails(me.cp.ResourceInstanceName, fail)
           r == handleGetSafe(me.cp, envOK, refresh, v)
       IN  ConcFinish(w, r, Got(refresh, Reached(r.log, "GetSafeDetails"), v,
                                v.safe.SafeName))
    /\ vault' = vault
    /\ Frame

ConcGetAccount(w, refresh, fail) ==
    /\ conc[w].pc = "handleGetAccount"
    /\ LET me == conc[w]
           p == parseSafeNameAccountName(me.cp.ResourceInstanceName)
           g == VaultGetAccounts(p.safename, fail)
           r == handleGetAccount(me.cp, envOK, refresh, g)
       IN  ConcFinish(w, r, Got(refresh, Reached(r.log, "GetAccounts"), g,
                                g.Response.Value))
    /\ vault' = vault
    /\ Frame

ConcDeleteAccount(w) ==
    /\ conc[w].pc = "handleDeleteAccount"
    /\ ConcFinish(w, handleDeleteAccount, Got(TRUE, FALSE, NoSafe, <<>>))
    /\ vault' = vault
    /\ Frame

ConcCreateAccount(w, refresh, fail) ==
    /\ conc[w].pc = "handleCreateAccount"
    /\ LET me == conc[w]
           p == parseSafeNameAccountName(me.cp.ResourceInstanceName)
           a == VaultAddAccount(me.req.body.safeName, p.acctname, fail)
           r == AddAccountCall(me.cp, me.req.body, envOK, refresh, a.out)
           reached == Reached(r.log, "AddAccount")
           g == Got(refresh, reached, a.out, a.out.ID)
       IN  /\ IF r.go
              THEN conc' = [conc EXCEPT
                               ![w].pc = "AddAccount.get",
                               ![w].got = Append(@, g),
                               ![w].local = [NoLocal EXCEPT !.ID = r.ID,
                                                            !.safename = r.safename,
                                                            !.acctname = r.acctname]]
              ELSE ConcFinish(w, CreateAccountError(r.message), g)
           /\ vault' = IF reached THEN a.vault ELSE vault
    /\ Frame

ConcAddAccountGet(w, refresh, fail) ==
    /\ conc[w].pc = "AddAccount.get"
    /\ LET me == conc[w]
           v == VaultGetAccounts(me.local.safename, fail)
           r == GetAccounts(envOK, refresh, me.local.safename, v)
           g == Got(refresh, Reached(r.log, "GetAccounts"), v, v.Response.Value)
       IN  IF r.err
           THEN ConcFinish(w, CreateAccountError(r.message), g)
           ELSE conc' = [conc EXCEPT ![w].pc = "AddAccount.poll",
                                     ![w].got = Append(@, g),
                                     ![w].local.getresp = r.accounts,
                                     ![w].local.i = 1]
    /\ vault' = vault
    /\ Frame

\* One round of AddAccount's loop: the sleep, the GetAccounts call, the log
\* line (a nil dereference when the call failed) and the break test; after
\* the last round FindAccount and handleCreateAccount's reply, which touch
\* nothing outside the goroutine.
ConcAddAccountPoll(w, refresh, fail) ==
    /\ conc[w].pc = "AddAccount.poll"
    /\ LET me == conc[w]
           v == VaultGetAccounts(me.local.safename, fail)
           r == GetAccounts(envOK, refresh, me.local.safename, v)
           g == Got(refresh, Reached(r.log, "GetAccounts"), v, v.Response.Value)
           getone == FindAccount(r.accounts, me.local.acctname)
       IN  IF r.accounts.ptrNil
           THEN ConcFinish(w, [fault |-> TRUE, resp |-> me.resp], g)
           ELSE IF BreakLoop(r.accounts) \/ me.local.i + 1 > PollCount
           THEN /\ ConcFinish(w, IF ~getone.ok THEN CreateAccountError(getone.message)
                                 ELSE CreateAccountCreated(me.cp, me.local.ID), g)
           ELSE conc' = [conc EXCEPT ![w].got = Append(@, g),
                                     ![w].local.getresp = r.accounts,
                                     ![w].local.i = @ + 1]
    /\ vault' = vault
    /\ Frame

\* somebody else changes the vault (another client, an administrator)
VaultChange ==
    /\ \E nv \in VaultStates : nv # vault /\ vault' = nv
    /\ conc' = conc
    /\ Frame

\* The session refresh is taken to succeed whenever the configuration is
\* there: a request fails to build its client only when envOK is FALSE.
ConcNext ==
    \/ \E w \in Workers : ConcServeHTTP(w)
    \/ \E w \in Workers, fail \in BOOLEAN : ConcCreateSafe(w, TRUE, fail)
    \/ \E w \in Workers : ConcDeleteSafe(w, TRUE)
    \/ \E w \in Workers, fail \in BOOLEAN : ConcGetSafe(w, TRUE, fail)
    \/ \E w \in Workers, fail \in BOOLEAN : ConcGetAccount(w, TRUE, fail)
    \/ \E w \in Workers : ConcDeleteAccount(w)
    \/ \E w \in Workers, fail \in BOOLEAN : ConcCreateAccount(w, TRUE, fail)
    \/ \E w \in Workers, fail \in BOOLEAN : ConcAddAccountGet(w, TRUE, fail)
    \/ \E w \in Workers, fail \in BOOLEAN : ConcAddAccountPoll(w, TRUE, fail)
    \/ VaultChange

ConcSpec == ConcInit /\ [][ConcNext]_vars

\* ------------------------------------------------------------- properties
Finished == pc \in {"done", "fault"}
\* the request reached handleRootRequest
Routed == trace # <<>> /\ trace[1] = "handleRootRequest"
\* the verb handler the request was dispatched to ("" when there is none)
Handler == IF Len(trace) = 3 THEN trace[3] ELSE ""
Events(op) == SelectSeq(log, LAMBDA e : e.op = op)
NoVaultCall == log = <<>>
Min(a, b) == IF a < b THEN a ELSE b

AddAccountSucceeded ==
    \E k \in 1..Len(log) :
        log[k].op = "AddAccount" /\ ~log[k].err /\ log[k].status < 300

\* C1 (as stated): every account PUT whose AddAccount call succeeded (no
\* error, status < 300) is answered 201 Created whatever the GetAccounts
\* calls that follow it return, be it empty results on all four calls or a
\* result without the parsed account name.
C1_CreatedWhateverPolls ==
    LET gets == Events("GetAccounts") IN
    (Finished /\ Handler = "handleCreateAccount" /\ AddAccountSucceeded
       /\ Len(gets) >= 1 /\ \A j \in 1..Len(gets) : ~gets[j].err)
        => (pc = "done" /\ resp.status = 201)

\* C2 (as stated): after a successful AddAccount the handler sleeps and calls
\* GetAccounts again only while the latest result is empty: with n calls made,
\* there are n - 1 sleeps, the first n - 1 results are empty, and the last is
\* non-empty unless the 3 retries are used up.
C2_PollsOnlyWhileEmpty ==
    LET gets == Events("GetAccounts")
        n == Len(gets)
    IN  (pc \in {"AddAccount.find", "done"} /\ Handler = "handleCreateAccount"
           /\ n >= 1 /\ ~gets[1].err)
        => /\ Count(log, "Sleep") = n - 1
           /\ \A j \in 1..(n - 1) : gets[j].count = 0
           /\ (gets[n].count > 0 \/ n = PollCount + 1)

\* C3 (as stated): a header with exactly 9 segments after trimming decodes
\* successfully, ResourceTypeName being segment 8 and ResourceInstanceName
\* empty.
C3_NineSegmentsDecode ==
    (Routed /\ req.header # <<>> /\ Len(Segments(req.header)) = 9)
        => /\ pc # "fault"
           /\ resp.code # "BadRequestPath"
           /\ cpRequest.ResourceTypeName = Segments(req.header)[9]
           /\ cpRequest.ResourceInstanceName = <<>>

\* C4 (as stated): no routed request ends in an unhandled fault; a finished
\* request has written a response with a valid status.
C4_NoUnhandledFault ==
    Routed => /\ pc # "fault"
              /\ (pc = "done" => resp.kind # "none" /\ ValidStatus(resp.status))

\* C5 (as stated): for a header with at least 9 segments after trimming,
\* decoding and re-encoding with ID() gives "/" followed by the first 10
\* segments joined by "/" (the first 9 when there are only 9).
C5_DecodeEncodeRoundTrip ==
    LET segments == Segments(req.header) IN
    (Routed /\ req.header # <<>> /\ Len(segments) >= 9)
        => /\ pc # "fault"
           /\ ID(cpRequest) =
                  <<Slash>> \o Join(SubSeq(segments, 1, Min(10, Len(segments))), Slash)

\* C6: a request that carries the routing header and whose header has fewer
\* than 9 segments after trimming is answered 400 BadRequestPath by the
\* router, without dispatch to a resource handler and without a vault call.
C6_BadRequestPath ==
    (Routed /\ req.header # <<>> /\ Len(Segments(req.header)) < 9)
        => /\ pc = "done"
           /\ resp.status = 400 /\ resp.kind = "error" /\ resp.code = "BadRequestPath"
           /\ trace = <<"handleRootRequest">>
           /\ NoVaultCall

C6_Witness ==
    /\ pc = "done" /\ req.method = "PUT" /\ resp.code = "BadRequestPath"
    /\ Len(Segments(req.header)) = 8

C8_DispatchByTypeName ==
    LET p == ParseCustomProviderHeaderRequestPath(req.header)
        t == p.req.ResourceTypeName
    IN  (Routed /\ req.header # <<>> /\ p.outcome = "ok")
        => /\ t = <<"safes">> => (Len(trace) >= 2 /\ trace[2] = "handleSafe")
           /\ t = <<"accounts">> => (Len(trace) >= 2 /\ trace[2] = "handleAccount")
           /\ t \notin {<<"safes">>, <<"accounts">>}
                 => /\ trace = <<"handleRootRequest">>
                    /\ pc = "done"
                    /\ resp.status = 405 /\ resp.code = "MethodNotAllowed"
                    /\ NoVaultCall

C8_Witness ==
    /\ pc = "done" /\ req.method = "DELETE" /\ resp.status = 405
    /\ cpRequest.ResourceTypeName = <<"widgets">>

\* C9 (as stated): on a safe GET, a GetSafeDetails status of 404 is answered
\* 404 SafeNotFound whether or not an error value came with it.
C9_NotFoundAlwaysSafeNotFound ==
    (Finished /\ Handler = "handleGetSafe")
        => \A k \in 1..Len(log) :
               (log[k].op = "GetSafeDetails" /\ log[k].status = 404)
                   => (pc = "done" /\ resp.status = 404 /\ resp.code = "SafeNotFound")

\* C9 (amended): on a safe GET, a GetSafeDetails status of 404 is answered
\* with status 404, error code SafeNotFound when no error value came with it
\* and GetSafeDetailsError when one did; any other status >= 300 that comes
\* without an error value is answered with that status and GetSafeDetailsError.
C9_NotFoundWithoutError ==
    (Finished /\ Handler = "handleGetSafe")
        => \A k \in 1..Len(log) :
               log[k].op = "GetSafeDetails"
                   => /\ log[k].status = 404
                          => /\ pc = "done" /\ resp.status = 404
                             /\ resp.code = IF log[k].err THEN "GetSafeDetailsError"
                                            ELSE "SafeNotFound"
                      /\ (~log[k].err /\ log[k].status >= 300 /\ log[k].status # 404)
                          => /\ pc = "done" /\ resp.status = log[k].status
                             /\ resp.code = "GetSafeDetailsError"

C9_Witness ==
    /\ pc = "done" /\ Handler = "handleGetSafe" /\ resp.code = "SafeNotFound"
    /\ \E k \in 1..Len(log) :
           log[k].op = "GetSafeDetails" /\ log[k].status = 404 /\ ~log[k].err

\* C10 (as stated): every safe DELETE fails with SafeDeletionError and no
\* other error code, in every configuration.
C10_DeleteAlwaysSafeDeletionError ==
    (Finished /\ Handler = "handleDeleteSafe")
        => (pc = "done" /\ resp.status >= 300 /\ resp.code = "SafeDeletionError")

\* C10 (amended): a safe DELETE that reaches its handler is never answered
\* with success: it is answered 500, with error code SafeDeletionError when
\* the vault client could be constructed and PAMClientError when it could not.
C10_DeleteNeverSucceeds ==
    (Finished /\ Handler = "handleDeleteSafe")
        => /\ pc = "done" /\ resp.status = 500 /\ resp.kind = "error"
           /\ resp.code = IF \E k \in 1..Len(log) :
                                  log[k].op = "createPAMClient" /\ ~log[k].err
                          THEN "SafeDeletionError" ELSE "PAMClientError"

C10_Witness ==
    /\ pc = "done" /\ Handler = "handleDeleteSafe" /\ resp.code = "SafeDeletionError"
    /\ envOK

\* ---------------------------------------------- properties of account names
\* the instance name of the request and its text around the first "."
InstanceName == cpRequest.ResourceInstanceName
HasDot(s) == \E k \in 1..Len(s) : s[k] = Dot
FirstDot(s) == CHOOSE k \in 1..Len(s) : s[k] = Dot /\ \A j \in 1..(k - 1) : s[j] # Dot
BeforeDot(s) == SubSeq(s, 1, FirstDot(s) - 1)
AfterDot(s) == SubSeq(s, FirstDot(s) + 1, Len(s))
AccountHandlers == {"handleGetAccount", "handleCreateAccount"}
\* the verb handler has run (its first step, for the account PUT)
HandlerRan == Handler # "" /\ pc # Handler
MalformedName == "resource name must be in format"
ClientBuilt == \E k \in 1..Len(log) : log[k].op = "createPAMClient" /\ ~log[k].err
ClientFailed == \E k \in 1..Len(log) : log[k].op = "createPAMClient" /\ log[k].err
VaultOps == {"AddSafe", "GetSafeDetails", "AddAccount", "GetAccounts"}

\* C11 (as stated): every account GET or PUT whose instance name contains no
\* "." is answered 409 ResourceNameMalformed.
C11_NoDotAlwaysMalformed ==
    (Finished /\ Handler \in AccountHandlers /\ ~HasDot(InstanceName))
        => (pc = "done" /\ resp.status = 409 /\ resp.code = "ResourceNameMalformed")

\* C11 (amended): an account request whose instance name contains no "." is
\* answered 409 and never with success: a GET with error code
\* ResourceNameMalformed and before any vault call, a PUT with error code
\* AddAccountError, the PUT never getting as far as a GetAccounts call.
C11_NoDotConflict ==
    (HandlerRan /\ Handler \in AccountHandlers /\ ~HasDot(InstanceName))
        => /\ pc = "done"
           /\ resp.status = 409 /\ resp.kind = "error"
           /\ Handler = "handleGetAccount"
                  => (resp.code = "ResourceNameMalformed" /\ NoVaultCall)
           /\ Handler = "handleCreateAccount"
                  => (resp.code = "AddAccountError" /\ Count(log, "GetAccounts") = 0)

C11_Witness ==
    /\ pc = "done" /\ Handler = "handleCreateAccount" /\ InstanceName = <<"s1">>
    /\ AddAccountSucceeded
    /\ resp.code = "AddAccountError" /\ resp.message = MalformedName

\* C12 (as stated): an instance name whose safe part or account part is
\* empty ("safe1.", ".acct1") is rejected with the malformed-name error: a
\* GET is answered ResourceNameMalformed and a PUT does not go on with it.
C12_EmptyPartsRejected ==
    (HandlerRan /\ Handler \in AccountHandlers /\ HasDot(InstanceName)
       /\ (BeforeDot(InstanceName) = <<>> \/ AfterDot(InstanceName) = <<>>))
        => /\ Handler = "handleGetAccount" => resp.code = "ResourceNameMalformed"
           /\ Handler = "handleCreateAccount" => local.ID = <<>>

\* C12 (amended): the split of an instance name fails exactly when the name
\* contains no "."; a part may be empty.  So an account GET is answered
\* ResourceNameMalformed exactly when the name has no ".", and an account PUT
\* that gets as far as the split reports the malformed name when the name has
\* no "." and goes on with the two parts when it has one.
C12_SplitNeedsOnlyADot ==
    (HandlerRan /\ Handler \in AccountHandlers)
        => /\ Handler = "handleGetAccount"
                  => (resp.code = "ResourceNameMalformed" <=> ~HasDot(InstanceName))
           /\ Handler = "handleCreateAccount"
                  => /\ resp.message = MalformedName => ~HasDot(InstanceName)
                     /\ local.ID # <<>> => HasDot(InstanceName)

C12_Witness ==
    /\ pc = "done" /\ Handler = "handleGetAccount" /\ InstanceName = <<Dot, "a1">>
    /\ \E k \in 1..Len(log) : log[k].op = "GetAccounts" /\ log[k].arg = <<>>

\* C13: the instance name is split at its first ".": the safe name is the
\* text before it, the account name everything after it with later dots
\* kept, so that safe name, ".", account name put together give the instance
\* name; a name with no "." gives an error and no GetAccounts call.
C13_SplitAtFirstDot ==
    (HandlerRan /\ Handler \in AccountHandlers)
        => /\ \A k \in 1..Len(log) :
                  log[k].op = "GetAccounts"
                      => (HasDot(InstanceName) /\ log[k].arg = BeforeDot(InstanceName))
           /\ (Handler = "handleCreateAccount" /\ local.ID # <<>>)
                  => /\ HasDot(InstanceName)
                     /\ local.safename = BeforeDot(InstanceName)
                     /\ local.acctname = AfterDot(InstanceName)
                     /\ local.safename \o <<Dot>> \o local.acctname = InstanceName
                     /\ ~HasDot(local.safename)
           /\ (Handler = "handleGetAccount" /\ resp.status = 200)
                  => resp.props.name = AfterDot(InstanceName)
           /\ ~HasDot(InstanceName)
                  => (pc = "done" /\ resp.kind = "error" /\ local.ID = <<>>)

C13_Witness ==
    /\ pc = "done" /\ Handler = "handleCreateAccount" /\ resp.status = 201
    /\ InstanceName = <<"s1", Dot, "a1", Dot, "b">>
    /\ local.safename = <<"s1">> /\ local.acctname = <<"a1", Dot, "b">>

\* C14: an account GET whose instance name has a "." with nothing after the
\* first one ("safe1.") is answered 404 ResourceNotFound at once: no vault
\* client is constructed and GetAccounts is not called.
C14_EmptyAccountNotFound ==
    (HandlerRan /\ Handler = "handleGetAccount" /\ HasDot(InstanceName)
       /\ AfterDot(InstanceName) = <<>>)
        => /\ pc = "done"
           /\ resp.status = 404 /\ resp.kind = "error" /\ resp.code = "ResourceNotFound"
           /\ log = <<>>

C14_Witness ==
    /\ pc = "done" /\ Handler = "handleGetAccount" /\ InstanceName = <<"s1", Dot>>
    /\ envOK /\ resp.status = 404

\* C15: an account PUT whose decoded body has an empty safeName or an empty
\* platformId is answered with an error and nothing is asked of the vault:
\* no client is constructed, no AddAccount and no GetAccounts call is made.
C15_EmptyBodyFieldsNoVault ==
    (HandlerRan /\ Handler = "handleCreateAccount" /\ req.body.ok
       /\ (req.body.safeName = <<>> \/ req.body.platformId = <<>>))
        => /\ pc = "done"
           /\ resp.kind = "error" /\ resp.status = 409 /\ resp.code = "AddAccountError"
           /\ log = <<>>

C15_Witness ==
    /\ pc = "done" /\ Handler = "handleCreateAccount" /\ envOK
    /\ req.body.ok /\ req.body.safeName = <<"s1">> /\ req.body.platformId = <<>>
    /\ resp.message = "error, platformId is not set"

\* C16: an account GET for "safe.acct" with a non-empty account part is
\* answered 200, with the id and name of the first entry named acct and
\* provisioningState Succeeded, exactly when the GetAccounts result has a
\* Count above 0 and holds such an entry; in every other case it is answered
\* 409 GetAccountsError.
C16_FoundIffCountedAndPresent ==
    LET acct == AfterDot(InstanceName)
        r == local.getresp.Response
        hits == {k \in 1..Len(r.Value) : r.Value[k].Name = acct}
        found == ~local.getresp.ptrNil /\ ~r.nil /\ r.Count > 0 /\ hits # {}
        first == CHOOSE k \in hits : \A j \in hits : k <= j
    IN  (Finished /\ Handler = "handleGetAccount" /\ HasDot(InstanceName)
           /\ AfterDot(InstanceName) # <<>>)
        => /\ pc = "done"
           /\ IF found
              THEN /\ resp.status = 200 /\ resp.kind = "success"
                   /\ resp.props.id = r.Value[first].ID
                   /\ resp.props.name = acct
                   /\ resp.props.provisioningState = "Succeeded"
              ELSE /\ resp.status = 409 /\ resp.kind = "error"
                   /\ resp.code = "GetAccountsError"

C16_Witness ==
    /\ pc = "done" /\ Handler = "handleGetAccount" /\ resp.status = 200
    /\ local.getresp.Response.Value = <<A1bis, A1>>
    /\ resp.props.id = A1bis.ID

\* C17: outside the polls of an account PUT, a request invokes each vault
\* operation at most once and never again after a failure: AddSafe only on a
\* safe PUT, GetSafeDetails only on a safe GET, AddAccount only on an account
\* PUT, and GetAccounts exactly once on an account GET whose client could be
\* constructed.
C17_AtMostOneVaultCall ==
    /\ Count(log, "AddSafe") <= (IF Handler = "handleCreateSafe" THEN 1 ELSE 0)
    /\ Count(log, "GetSafeDetails") <= (IF Handler = "handleGetSafe" THEN 1 ELSE 0)
    /\ Count(log, "AddAccount") <= (IF Handler = "handleCreateAccount" THEN 1 ELSE 0)
    /\ Handler # "handleCreateAccount"
           => Count(log, "GetAccounts") <= (IF Handler = "handleGetAccount" THEN 1 ELSE 0)
    /\ (Finished /\ Handler = "handleGetAccount" /\ ClientBuilt)
           => Count(log, "GetAccounts") = 1

C17_Witness ==
    /\ Finished /\ Handler = "handleGetSafe" /\ Count(log, "GetSafeDetails") = 1
    /\ \E k \in 1..Len(log) : log[k].op = "GetSafeDetails" /\ log[k].err

\* C18: a safe PUT whose body decodes and whose AddSafe call succeeds (no
\* error, status below 300) is answered 201 with properties.safeName the
\* body's safeName, properties.safeID the id the vault assigned,
\* properties.description the body's description and provisioningState
\* Succeeded.
C18_SafeCreated ==
    (Finished /\ Handler = "handleCreateSafe"
       /\ \E k \in 1..Len(log) :
              log[k].op = "AddSafe" /\ ~log[k].err /\ log[k].status < 300)
        => /\ pc = "done" /\ req.body.ok
           /\ resp.status = 201 /\ resp.kind = "success"
           /\ resp.props.safeName = req.body.safeName
           /\ resp.props.safeID = Safe1.SafeURLID
           /\ resp.props.description = req.body.description
           /\ resp.props.provisioningState = "Succeeded"

C18_Witness ==
    /\ pc = "done" /\ Handler = "handleCreateSafe" /\ resp.status = 201
    /\ req.body.safeName = <<"s2">> /\ InstanceName = <<"s1">>
    /\ resp.props.safeName = <<"s2">> /\ resp.props.description = <<"d">>

\* C19: a safe PUT whose AddSafe call returns an error, or a status of 300
\* or more, is answered 500 SafeCreationError with the text of that failure,
\* and never 201.
C19_SafeCreationError ==
    (Finished /\ Handler = "handleCreateSafe")
        => \A k \in 1..Len(log) :
               (log[k].op = "AddSafe" /\ (log[k].err \/ log[k].status >= 300))
                   => /\ pc = "done"
                      /\ resp.status = 500 /\ resp.kind = "error"
                      /\ resp.code = "SafeCreationError"
                      /\ resp.message = IF log[k].err THEN "failed to add safe"
                                        ELSE "PAM API returned status"

C19_Witness ==
    /\ pc = "done" /\ Handler = "handleCreateSafe" /\ resp.code = "SafeCreationError"
    /\ \E k \in 1..Len(log) : log[k].op = "AddSafe" /\ ~log[k].err /\ log[k].status = 404

\* C20 (as stated): whenever the construction of the vault client fails, the
\* request is answered 500 PAMClientError, for safe and account requests
\* alike, and no vault operation is invoked.
C20_ClientFailureAlways500 ==
    (Finished /\ ClientFailed)
        => /\ pc = "done"
           /\ resp.status = 500 /\ resp.code = "PAMClientError"
           /\ \A k \in 1..Len(log) : log[k].op \notin VaultOps

\* ------------------------------------------- properties of the header decode
\* the header without its leading and trailing "/" runs, cut by position
Stripped(h) ==
    LET keep == {k \in 1..Len(h) : h[k] # Slash} IN
    IF keep = {} THEN <<>>
    ELSE SubSeq(h, CHOOSE k \in keep : \A j \in keep : k <= j,
                   CHOOSE k \in keep : \A j \in keep : j <= k)
HeaderParts == Split(Stripped(req.header), Slash)

\* C21 (as stated): a header with exactly 9 segments after trimming makes
\* the decoder return an error value: the request is answered 400
\* BadRequestPath, it is neither dispatched nor does it fault.
C21_NineSegmentsError ==
    (Routed /\ req.header # <<>> /\ Len(HeaderParts) = 9)
        => /\ pc = "done"
           /\ resp.status = 400 /\ resp.code = "BadRequestPath"
           /\ trace = <<"handleRootRequest">>

\* C22 (as stated): the id of a response envelope is the address rendered
\* with all six value positions, the instance name included when it is
\* empty (the address then ends in "/").
C22_IDRendersAllPositions ==
    resp.kind = "success"
        => resp.id = <<Slash, "subscriptions", Slash>> \o cpRequest.Subscriptions
                     \o <<Slash, "resourceGroups", Slash>> \o cpRequest.ResourceGroups
                     \o <<Slash, "providers", Slash>> \o cpRequest.Providers
                     \o <<Slash, "resourceProviders", Slash>> \o cpRequest.ResourceProviders
                     \o <<Slash>> \o cpRequest.ResourceTypeName
                     \o <<Slash>> \o cpRequest.ResourceInstanceName

\* C23: for a header with at least 10 segments once its leading and trailing
\* "/" are cut, the decode succeeds and its fields are the segments at
\* positions 1, 3, 5, 7, 8 and 9 (counted from 0), whatever the number of
\* leading and trailing "/", with empty interior segments kept in place and
\* segments after position 9 ignored.
C23_PositionalDecode ==
    (Routed /\ req.header # <<>> /\ Len(HeaderParts) >= 10)
        => /\ resp.code # "BadRequestPath"
           /\ pc = "fault" => Len(trace) = 3
           /\ cpRequest = [Subscriptions |-> HeaderParts[2],
                           ResourceGroups |-> HeaderParts[4],
                           Providers |-> HeaderParts[6],
                           ResourceProviders |-> HeaderParts[8],
                           ResourceTypeName |-> HeaderParts[9],
                           ResourceInstanceName |-> HeaderParts[10],
                           FullPath |-> req.header]

C23_Witness ==
    /\ Routed /\ Len(req.header) > 2
    /\ req.header[1] = Slash /\ req.header[Len(req.header)] = Slash
    /\ Len(HeaderParts) = 11
    /\ cpRequest.ResourceTypeName = <<"safes">>
    /\ cpRequest.ResourceInstanceName = <<"s1">>
    /\ pc = "done" /\ resp.status = 200

\* C24 (as stated): every account PUT ends with a response, after at most
\* one AddAccount call, at most 4 GetAccounts calls and at most 3 sleeps,
\* whatever the vault does.
C24_PutEndsWithResponse ==
    Handler = "handleCreateAccount"
        => /\ Count(log, "AddAccount") <= 1
           /\ Count(log, "GetAccounts") <= PollCount + 1
           /\ Count(log, "Sleep") <= PollCount
           /\ Finished => (pc = "done" /\ resp.kind # "none")

\* C25: requests served at the same time share nothing the adapter could
\* change.  Two requests with the same verb, header and body that received
\* the same session and vault outcomes end the same way, whatever ran in
\* between; and a GET that gets through to the vault without error is answered
\* 200 exactly when the vault holds the safe (the account) at the moment of
\* the call, whatever earlier requests were answered.
C25_Determined ==
    \A w1, w2 \in Workers :
        (/\ conc[w1].pc \in {"done", "fault"} /\ conc[w2].pc \in {"done", "fault"}
         /\ conc[w1].req = conc[w2].req /\ conc[w1].got = conc[w2].got)
            => (conc[w1].pc = conc[w2].pc /\ conc[w1].resp = conc[w2].resp)
C25_Current ==
    \A w \in Workers :
        LET g == conc'[w].got[Len(conc'[w].got)] IN
        /\ (conc[w].pc = "handleGetSafe" /\ conc'[w].pc # conc[w].pc
              /\ g.reached /\ ~g.err)
               => (conc'[w].resp.status = 200
                       <=> conc[w].cp.ResourceInstanceName \in vault.safes)
        /\ (conc[w].pc = "handleGetAccount" /\ conc'[w].pc # conc[w].pc
              /\ g.reached /\ ~g.err)
               => (conc'[w].resp.status = 200
                       <=> \E a \in vault.accounts :
                               a.safe \o <<Dot>> \o a.Name
                                   = conc[w].cp.ResourceInstanceName)
C26_ErrorMeansNothingAdded ==
    (pc = "done" /\ Handler = "handleCreateAccount" /\ resp.status >= 400
       /\ resp.message # "no account id was set in the response")
        => ~AddAccountSucceeded

\* C27 (as stated): when a safe PUT for an address is answered 201, the safe
\* name passed to AddSafe is the name a GET for the same address passes to
\* GetSafeDetails.
C27_CreateThenReadSameSafe ==
    (pc = "done" /\ Handler = "handleCreateSafe" /\ resp.status = 201)
        => LET get == handleGetSafe(cpRequest, TRUE, TRUE,
                                    [err |-> FALSE, status |-> 200, safe |-> Safe1])
               reads == SelectSeq(get.log, LAMBDA e : e.op = "GetSafeDetails")
           IN  \A k \in 1..Len(log) :
                   log[k].op = "AddSafe" => (Len(reads) = 1 /\ reads[1].arg = log[k].arg)

\* C28 (as stated): on an account PUT, every GetAccounts call queries the safe
\* that the AddAccount call named (the body's safeName).
C28_PollsQueryTheSafeOfTheBody ==
    Handler = "handleCreateAccount"
        => \A j, k \in 1..Len(log) :
               (log[j].op = "AddAccount" /\ log[k].op = "GetAccounts")
                   => log[k].arg = log[j].arg

\* C29: a GET or DELETE request, with or without the routing header, never
\* invokes AddSafe or AddAccount, whatever else it asks of the vault.
C29_ReadsAndDeletesCreateNothing ==
    req.method \in {"GET", "DELETE"}
        => \A k \in 1..Len(log) : log[k].op \notin {"AddSafe", "AddAccount"}

C29_Witness ==
    /\ pc = "done" /\ req.method = "GET" /\ req.body = FullBody
    /\ Handler = "handleGetSafe" /\ resp.status = 200
    /\ Count(log, "GetSafeDetails") = 1

\* C30 (as stated): on an account PUT, a GetAccounts poll that fails with an
\* error does not make the handler fault: the loop goes on and the request is
\* answered from the outcome of the last poll.
C30_FailedPollIsSurvived ==
    LET gets == Events("GetAccounts") IN
    (Handler = "handleCreateAccount"
       /\ \E k \in 2..Len(gets) : gets[k].err)
        => pc # "fault"

====
